---- MODULE Spec2Model ----
(***************************************************************************)
(* Client reconciliation of the airline-demo Agent View.                   *)
(*                                                                         *)
(* The client is the Home page component (src/unnamed/part_004), the       *)
(* ChatKit panel that forwards effects to it (src/unnamed/part_002), the   *)
(* Agent panel that selects the runner events (src/unnamed/part_001) and   *)
(* the Runner Output component that groups them                            *)
(* (src/src/ui/components/runner-output.tsx).  The backend is not part of  *)
(* the sources; its threads and event logs are modelled from spec.md.      *)
(***************************************************************************)
EXTENDS Integers, Sequences, FiniteSets

(***************************************************************************)
(* Bounds of the model.                                                    *)
(***************************************************************************)
MaxLog == 3        \* events appended to one server-side EventLog
MaxInflight == 2   \* HTTP responses on their way to the client
MaxItems == 3      \* length of the sequences given to the pure transforms

(***************************************************************************)
(* Program constants.                                                      *)
(***************************************************************************)
PROGRESS_TTL == 15000   \* part_004:29, milliseconds

Null == "null"
NoTimestamp == 0 - 1   \* an event that arrives without a timestamp
Agents == {"Triage", "Seating"}
DefaultAgent == "Triage"
AgentDirectory == <<"Triage", "Seating">>
EventTypes == {"message", "tool_call", "tool_output", "handoff",
               "context_update", "progress_update", "guardrail_check"}
\* The clock values (Date.now(), milliseconds) the system steps through, and the
\* evaluation times given to the pure transforms.
Times == {0, PROGRESS_TTL + 100}
FnTimes == {0, 100, PROGRESS_TTL, PROGRESS_TTL + 100}
\* The event types the engine appends in the model: a durable event, a handoff
\* and the ephemeral progress indicator.  Tool events matter to the grouping
\* only, which is exercised on arbitrary sequences (FnSpec).
EngineTypes == {"message", "handoff", "progress_update"}
\* Thread ids a client can hold; the server only ever creates ServerThreadId.
ThreadIds == {"t1", "t2"}
ServerThreadId == "t1"

VARIABLES
  now,              \* wall clock, Date.now()
  threads,          \* server: known thread id -> [current_agent, events]
  inflight,         \* responses of fetchBootstrapState / fetchThreadState under way
  phase,            \* Home's mount effect: "mount", "booting", "ready"
  agents,           \* Home state
  events,           \* Home state
  currentAgent,     \* Home state
  threadId,         \* Home state
  initialThreadId,  \* Home state
  guardrails,       \* Home state
  context,          \* Home state
  lastHydrate,      \* how the latest hydrateState call ended
  lastEffect,       \* the effect ChatKitPanel.onEffect handled last
  fnItems,          \* pure transforms: the input sequence
  fnNow,            \* pure transforms: the evaluation time
  fnPruned,         \* pure transforms: normalizeEvents(fnItems) at fnNow
  fnGroups,         \* pure transforms: groupRunnerEvents(fnItems)
  fnPc              \* pure transforms: "build" or "done"

clientVars == <<agents, events, currentAgent, threadId, initialThreadId,
                guardrails, context, lastHydrate>>
sysVars == <<now, threads, inflight, phase, lastEffect>>
fnVars == <<fnItems, fnNow, fnPruned, fnGroups, fnPc>>
vars == <<now, threads, inflight, phase, agents, events, currentAgent,
          threadId, initialThreadId, guardrails, context, lastHydrate,
          lastEffect,
          fnItems, fnNow, fnPruned, fnGroups, fnPc>>

(***************************************************************************)
(* Helpers over event sequences.                                           *)
(***************************************************************************)
Max(a, b) == IF a >= b THEN a ELSE b

Ids(s) == {s[i].id : i \in 1..Len(s)}

NoDupIds(s) == \A i, j \in 1..Len(s) : s[i].id = s[j].id => i = j

RECURSIVE Flatten(_)
Flatten(gs) == IF gs = <<>> THEN <<>> ELSE Head(gs) \o Flatten(Tail(gs))

IsProgress(e) == e.type = "progress_update"

CountProgress(s) == Cardinality({i \in 1..Len(s) : IsProgress(s[i])})

(***************************************************************************)
(* normalizeEvents (Home).                                                 *)
(***************************************************************************)
\* items.filter(non-progress).reduce((max, e) => Math.max(max, ts), 0)
RECURSIVE ReduceMax(_, _, _)
ReduceMax(items, i, max) ==
  IF i > Len(items) THEN max
  ELSE ReduceMax(items, i + 1,
                 IF IsProgress(items[i]) THEN max
                 ELSE Max(max, items[i].timestamp))

latestNonProgressOfMutant(items) == 0
latestNonProgressOf(items) == ReduceMax(items, 1, 0)

\* if (latestNonProgress && ts < latestNonProgress) return false;
SupersededMutant(latest, ts) == FALSE
Superseded(latest, ts) == latest # 0 /\ ts < latest

\* if (now - ts > 15000) return false;
ExpiredMutant(t, ts) == t - ts >= PROGRESS_TTL
Expired(t, ts) == t - ts > PROGRESS_TTL

KeepEvent(e, latest, t) ==
  IF ~IsProgress(e) THEN TRUE
  ELSE IF Superseded(latest, e.timestamp) THEN FALSE
  ELSE IF Expired(t, e.timestamp) THEN FALSE
  ELSE TRUE

normalizeEvents(items, t) ==
  IF Len(items) = 0 THEN items
  ELSE LET latestNonProgress == latestNonProgressOf(items)
       IN  SelectSeq(items, LAMBDA e : KeepEvent(e, latestNonProgress, t))

(***************************************************************************)
(* groupRunnerEvents (Runner Output) and the Agent panel's selection.      *)
(***************************************************************************)
\* the while condition: j < events.length && type === "tool_output" && same agent
InRunMutant(evs, j, current) ==
  j <= Len(evs) /\ evs[j].type = "tool_output"
InRun(evs, j, current) ==
  j <= Len(evs) /\ evs[j].type = "tool_output" /\ evs[j].agent = current.agent

RECURSIVE ScanRun(_, _, _)
ScanRun(evs, j, current) ==
  IF InRun(evs, j, current) THEN ScanRun(evs, j + 1, current) ELSE j

\* const group = [current]; ... group.push(events[j])
ToolGroupMutant(evs, i, j) == SubSeq(evs, i + 1, j - 1)
ToolGroup(evs, i, j) == SubSeq(evs, i, j - 1)

\* i = j - 1; continue;  followed by the loop's i++
ResumeAtMutant(j) == j + 1
ResumeAt(j) == j

RECURSIVE GroupLoop(_, _, _)
GroupLoop(evs, i, groups) ==
  IF i > Len(evs) THEN groups
  ELSE IF evs[i].type = "tool_call"
       THEN LET j == ScanRun(evs, i + 1, evs[i])
            IN  GroupLoop(evs, ResumeAt(j), Append(groups, ToolGroup(evs, i, j)))
       ELSE GroupLoop(evs, i + 1, Append(groups, <<evs[i]>>))

groupRunnerEvents(evs) == GroupLoop(evs, 1, <<>>)

\* AgentPanel: events.filter(e => e.type !== "message" && e.type !== "progress_update")
runnerEvents(evs) ==
  SelectSeq(evs, LAMBDA e : e.type # "message" /\ e.type # "progress_update")

(***************************************************************************)
(* The backend, modelled from spec.md sections 3, 4.1-4.3 and 6.           *)
(***************************************************************************)
NoEffect == [effect |-> "none", events |-> <<>>, thread_id |-> Null]

\* useState<Record<string, any>>({}): the mapping without keys.
EmptyContext == [k \in {} |-> 0]

Failed(kind) ==
  [kind |-> kind, ok |-> FALSE, thread_id |-> Null, current_agent |-> "",
   agents |-> <<>>, events |-> <<>>, context |-> EmptyContext,
   guardrails |-> <<>>]

\* A turn shows in the log as its message event.  Each turn runs the acting
\* agent's input guardrail, which adds one GuardrailCheck to the thread's
\* guardrail log, and commits one change to the thread's context.
Turns(log) == SelectSeq(log, LAMBDA e : e.type = "message")

GuardrailLog(log) ==
  [i \in 1..Len(Turns(log)) |->
     [id |-> Turns(log)[i].id, name |-> "relevance",
      agent |-> Turns(log)[i].agent, verdict |-> "pass",
      timestamp |-> Turns(log)[i].timestamp]]

ThreadContext(log) ==
  [k \in (IF Turns(log) = <<>> THEN {} ELSE {"turns"}) |-> Len(Turns(log))]

\* The full snapshot {thread_id, current_agent, agents[], context, events[],
\* guardrails[]} of a known thread.
Snapshot(kind, id, th) ==
  [kind |-> kind, ok |-> TRUE, thread_id |-> id,
   current_agent |-> th.current_agent,
   agents |-> AgentDirectory, events |-> th.events,
   context |-> ThreadContext(th.events),
   guardrails |-> GuardrailLog(th.events)]

NewThread == [current_agent |-> DefaultAgent, events |-> <<>>]

OtherAgent(a) == CHOOSE b \in Agents : b # a

\* The engine appends one event to the thread's EventLog; a handoff also
\* moves current_agent in the same step.
EngineAppend(t, ty) ==
  /\ t \in DOMAIN threads
  /\ Len(threads[t].events) < MaxLog
  /\ LET log == threads[t].events
         cur == threads[t].current_agent
         ev == [id |-> Len(log) + 1, type |-> ty,
                agent |-> cur,
                timestamp |-> now]
     IN  threads' = [threads EXCEPT
                       ![t] = [current_agent |-> IF ty = "handoff"
                                                 THEN OtherAgent(cur) ELSE cur,
                               events |-> Append(log, ev)]]
  /\ UNCHANGED <<now, inflight, phase, lastEffect>>
  /\ UNCHANGED clientVars
  /\ UNCHANGED fnVars

\* state(thread_id): the snapshot of a known thread, not-found otherwise.
\* fetchThreadState turns a non-OK response and a network error into the same
\* null, so a failed response stands for both.
ServeState(id) ==
  IF id \in DOMAIN threads
  THEN {Snapshot("state", id, threads[id])}
  ELSE {Failed("state")}

Tick ==
  /\ \E t \in Times : t > now /\ now' = t
  /\ UNCHANGED <<threads, inflight, phase, lastEffect>>
  /\ UNCHANGED clientVars
  /\ UNCHANGED fnVars

(***************************************************************************)
(* Home (src/unnamed/part_004).                                            *)
(***************************************************************************)
\* new Date(e.timestamp ?? Date.now())
toClientEvents(evs, t) ==
  [i \in 1..Len(evs) |->
     [evs[i] EXCEPT !.timestamp = IF evs[i].timestamp = NoTimestamp THEN t
                                  ELSE evs[i].timestamp]]

\* useEffect(() => { if (threadId) void hydrateState(threadId) }, [threadId]):
\* the requests a change of threadId from old to new issues.
ThreadEffectMutant(old, new) == {}
ThreadEffect(old, new) ==
  IF new # old /\ new # Null THEN ServeState(new) ELSE {}

\* if (bootstrap.current_agent) setCurrentAgent(bootstrap.current_agent);
bootstrapCurrentAgentMutant(r, cur) == cur
bootstrapCurrentAgent(r, cur) ==
  IF r.current_agent # "" THEN r.current_agent ELSE cur

\* The mount effect calls fetchBootstrapState; the backend creates the thread
\* if none exists.
Mount ==
  /\ phase = "mount"
  /\ phase' = "booting"
  /\ \/ LET th == IF ServerThreadId \in DOMAIN threads
                   THEN threads[ServerThreadId] ELSE NewThread
        IN  /\ threads' = [x \in {ServerThreadId} |-> th]
            /\ inflight' = inflight \cup {Snapshot("bootstrap", ServerThreadId, th)}
     \/ /\ inflight' = inflight \cup {Failed("bootstrap")}
        /\ UNCHANGED threads
  /\ UNCHANGED <<now, lastEffect>>
  /\ UNCHANGED clientVars
  /\ UNCHANGED fnVars

\* The continuation of the mount effect after await fetchBootstrapState().
BootstrapReturn(r) ==
  /\ r \in inflight /\ r.kind = "bootstrap"
  /\ phase' = "ready"
  /\ IF ~r.ok
     THEN /\ inflight' = inflight \ {r}
          /\ UNCHANGED clientVars
     ELSE /\ initialThreadId' = r.thread_id
          /\ threadId' = r.thread_id
          /\ currentAgent' = bootstrapCurrentAgent(r, currentAgent)
          /\ agents' = r.agents
          /\ events' = normalizeEvents(toClientEvents(r.events, now), now)
          /\ context' = r.context
          /\ guardrails' = toClientEvents(r.guardrails, now)
          /\ UNCHANGED lastHydrate
          /\ LET hs == ThreadEffect(threadId, r.thread_id)
             IN  IF hs = {} THEN inflight' = inflight \ {r}
                 ELSE \E h \in hs : inflight' = (inflight \ {r}) \cup {h}
  /\ UNCHANGED <<now, threads, lastEffect>>
  /\ UNCHANGED fnVars

\* setThreadId(id) and the effect on threadId that follows the render.
SetThreadId(id) ==
  /\ threadId' = id
  /\ LET hs == ThreadEffect(threadId, id)
     IN  IF hs = {} THEN UNCHANGED inflight
         ELSE /\ Cardinality(inflight) < MaxInflight
              /\ \E h \in hs : inflight' = inflight \cup {h}
  /\ UNCHANGED <<agents, events, currentAgent, initialThreadId, guardrails,
                 context, lastHydrate>>

\* handleThreadChange, called by ChatKit's onThreadChange.
handleThreadChange(id) ==
  /\ phase # "mount"
  /\ SetThreadId(id)
  /\ UNCHANGED <<now, threads, phase, lastEffect>>
  /\ UNCHANGED fnVars

\* hydrateState(id) up to its await: if (!id) return; fetchThreadState(id).
HydrateCall(id) ==
  IF id = Null
  THEN /\ lastHydrate' = "skipped"
       /\ UNCHANGED inflight
  ELSE /\ Cardinality(inflight) < MaxInflight
       /\ \E h \in ServeState(id) : inflight' = inflight \cup {h}
       /\ UNCHANGED lastHydrate

\* handleResponseEnd, called by ChatKit's onResponseEnd.
handleResponseEnd ==
  /\ phase # "mount"
  /\ HydrateCall(threadId)
  /\ UNCHANGED <<now, threads, phase, lastEffect>>
  /\ UNCHANGED <<agents, events, currentAgent, threadId, initialThreadId,
                 guardrails, context>>
  /\ UNCHANGED fnVars

\* const data = await fetchThreadState(id); if (!data) return;
\* fetchThreadState gives null for a non-OK response and for a network error.
NoDataMutant(r) == FALSE
NoData(r) == ~r.ok

\* hydrateState after its await: if (!data) return; then the setters.
HydrateReturn(r) ==
  /\ r \in inflight /\ r.kind = "state"
  /\ inflight' = inflight \ {r}
  /\ IF NoData(r)
     THEN /\ lastHydrate' = "failed"
          /\ UNCHANGED <<agents, events, currentAgent, threadId,
                         initialThreadId, guardrails, context>>
     ELSE /\ lastHydrate' = "applied"
          /\ currentAgent' = r.current_agent
          /\ context' = r.context
          /\ agents' = r.agents
          /\ events' = toClientEvents(r.events, now)
          /\ guardrails' = toClientEvents(r.guardrails, now)
          /\ UNCHANGED <<threadId, initialThreadId>>
  /\ UNCHANGED <<now, threads, phase, lastEffect>>
  /\ UNCHANGED fnVars

(***************************************************************************)
(* ChatKitPanel.onEffect (src/unnamed/part_002) as wired by Home, which    *)
(* passes onThreadChange, onResponseEnd and onRunnerBindThread only.       *)
(***************************************************************************)
\* The batches the delta channel can carry: any suffix of a thread's log
\* (delivery is at-least-once, so a batch can overlap what the client holds).
DeltaBatches ==
  UNION {{SubSeq(threads[t].events, k, Len(threads[t].events)) :
            k \in 1..(Len(threads[t].events) + 1)} : t \in DOMAIN threads}

EffectMessages ==
  {[effect |-> "runner_state_update", events |-> <<>>, thread_id |-> Null]}
  \cup {[effect |-> "runner_event_delta", events |-> b, thread_id |-> Null] :
          b \in DeltaBatches}
  \cup {[effect |-> "runner_bind_thread", events |-> <<>>, thread_id |-> t] :
          t \in DOMAIN threads \cup {Null}}

\* onRunnerEventDelta?.(events): Home passes no such handler, so the call is
\* skipped and the events state stays as it is.
onRunnerEventDeltaMutant(known, batch) == known \o batch
onRunnerEventDelta(known, batch) == known

onEffect(m) ==
  /\ phase # "mount"
  /\ m \in EffectMessages
  /\ lastEffect' = m
  /\ IF m.effect = "runner_event_delta"
     THEN /\ events' = onRunnerEventDelta(events, m.events)
          /\ UNCHANGED <<agents, currentAgent, threadId, initialThreadId,
                         guardrails, context, lastHydrate, inflight>>
     ELSE IF m.effect = "runner_bind_thread" /\ m.thread_id # Null
     THEN SetThreadId(m.thread_id)
     ELSE UNCHANGED <<agents, events, currentAgent, threadId, initialThreadId,
                      guardrails, context, lastHydrate, inflight>>
  /\ UNCHANGED <<now, threads, phase>>
  /\ UNCHANGED fnVars

\* The page is reloaded: a new Home instance, responses to the old one are lost.
Reload ==
  /\ phase = "ready"
  /\ phase' = "mount"
  /\ inflight' = {}
  /\ agents' = <<>>
  /\ events' = <<>>
  /\ currentAgent' = ""
  /\ threadId' = Null
  /\ initialThreadId' = Null
  /\ guardrails' = <<>>
  /\ context' = EmptyContext
  /\ lastHydrate' = "none"
  /\ lastEffect' = NoEffect
  /\ UNCHANGED <<now, threads>>
  /\ UNCHANGED fnVars

(***************************************************************************)
(* The pure transforms on arbitrary inputs.                                *)
(***************************************************************************)
FnTimestamps == {0, 100}

FnAdd(ty, a, ts) ==
  /\ fnPc = "build"
  /\ Len(fnItems) < MaxItems
  /\ fnItems' = Append(fnItems, [id |-> Len(fnItems) + 1, type |-> ty,
                                 agent |-> a, timestamp |-> ts])
  /\ UNCHANGED <<fnNow, fnPruned, fnGroups, fnPc>>
  /\ UNCHANGED sysVars
  /\ UNCHANGED clientVars

FnEval(t) ==
  /\ fnPc = "build"
  /\ fnPc' = "done"
  /\ fnNow' = t
  /\ fnPruned' = normalizeEvents(fnItems, t)
  /\ fnGroups' = groupRunnerEvents(fnItems)
  /\ UNCHANGED fnItems
  /\ UNCHANGED sysVars
  /\ UNCHANGED clientVars

(***************************************************************************)
(* Specifications.                                                         *)
(***************************************************************************)
Init ==
  /\ now = 0
  /\ threads = [x \in {} |-> NewThread]
  /\ inflight = {}
  /\ phase = "mount"
  /\ agents = <<>>
  /\ events = <<>>
  /\ currentAgent = ""
  /\ threadId = Null
  /\ initialThreadId = Null
  /\ guardrails = <<>>
  /\ context = EmptyContext
  /\ lastHydrate = "none"
  /\ lastEffect = NoEffect
  /\ fnItems = <<>>
  /\ fnNow = 0
  /\ fnPruned = <<>>
  /\ fnGroups = <<>>
  /\ fnPc = "build"

Next ==
  \/ Tick
  \/ \E t \in ThreadIds, ty \in EngineTypes : EngineAppend(t, ty)
  \/ Mount
  \/ \E r \in inflight : BootstrapReturn(r)
  \/ \E id \in ThreadIds : handleThreadChange(id)
  \/ handleResponseEnd
  \/ \E r \in inflight : HydrateReturn(r)
  \/ \E m \in EffectMessages : onEffect(m)
  \/ Reload

Spec == Init /\ [][Next]_vars

FnNext ==
  \/ \E ty \in EventTypes, a \in Agents, ts \in FnTimestamps : FnAdd(ty, a, ts)
  \/ \E t \in FnTimes : FnEval(t)

FnSpec == Init /\ [][FnNext]_vars

(***************************************************************************)
(* The filter and the grouping stated independently of the code, for the   *)
(* properties below.                                                       *)
(***************************************************************************)
Range(s) == {s[i] : i \in 1..Len(s)}

\* M: the largest timestamp of a non-progress event, 0 when there is none.
MaxNonProgress(s) ==
  LET S == {s[i].timestamp : i \in {k \in 1..Len(s) : ~IsProgress(s[k])}}
  IN  IF S = {} THEN 0 ELSE CHOOSE m \in S : \A x \in S : x <= m

Age(e, t) == t - e.timestamp

\* The progress_update events of s that are neither superseded nor older than
\* the threshold at time t.
LiveProgress(s, t) ==
  {i \in 1..Len(s) : /\ IsProgress(s[i])
                     /\ s[i].timestamp >= MaxNonProgress(s)
                     /\ Age(s[i], t) <= PROGRESS_TTL}

(***************************************************************************)
(* C2. normalizeEvents returns the input subsequence that keeps every      *)
(* non-progress event and keeps a progress_update iff its timestamp is at  *)
(* least M and its age is below the threshold.                             *)
(***************************************************************************)
\* C2 as stated: the age must be strictly below 15 s (age = 15 s is dropped).
C2_StrictThreshold ==
  fnPc = "done" =>
    fnPruned = SelectSeq(fnItems,
                 LAMBDA e : \/ ~IsProgress(e)
                            \/ /\ e.timestamp >= MaxNonProgress(fnItems)
                               /\ Age(e, fnNow) < PROGRESS_TTL)

\* C2 as amended: a progress_update is kept iff its timestamp is at least M and
\* its age is at most 15 s; only an age above 15 s expires it.
C2_FilterExact ==
  fnPc = "done" =>
    fnPruned = SelectSeq(fnItems,
                 LAMBDA e : \/ ~IsProgress(e)
                            \/ /\ e.timestamp >= MaxNonProgress(fnItems)
                               /\ Age(e, fnNow) <= PROGRESS_TTL)

\* A progress_update aged exactly 15 s is in the output, beside a dropped one.
C2_Witness ==
  /\ fnPc = "done"
  /\ \E e \in Range(fnPruned) : IsProgress(e) /\ Age(e, fnNow) = PROGRESS_TTL
  /\ \E e \in Range(fnItems) : IsProgress(e) /\ e \notin Range(fnPruned)

(***************************************************************************)
(* C4. The output of the staleness filter holds at most one                *)
(* progress_update.                                                        *)
(***************************************************************************)
\* C4 as stated.
C4_AtMostOneProgress ==
  fnPc = "done" => CountProgress(fnPruned) <= 1

\* C4 as amended: the progress_update events of the output are exactly those
\* of the input that are neither superseded (timestamp below M) nor older than
\* 15 s, however many they are.
C4_OnlyLiveProgress ==
  fnPc = "done" =>
    /\ CountProgress(fnPruned) = Cardinality(LiveProgress(fnItems, fnNow))
    /\ \A e \in Range(fnPruned) :
         IsProgress(e) => /\ e.timestamp >= MaxNonProgress(fnItems)
                          /\ Age(e, fnNow) <= PROGRESS_TTL

\* Two progress_update events are visible together, after a durable event.
C4_Witness ==
  /\ fnPc = "done"
  /\ CountProgress(fnPruned) >= 2
  /\ \E e \in Range(fnItems) : ~IsProgress(e)

(***************************************************************************)
(* C6. Grouping is total and order-preserving: the groups, concatenated in *)
(* order, are the grouped sequence, and no group is empty.                 *)
(***************************************************************************)
C6_GroupingPartitions ==
  fnPc = "done" =>
    /\ Flatten(fnGroups) = fnItems
    /\ \A g \in Range(fnGroups) : Len(g) >= 1
    /\ \A e \in Range(fnItems) :
         Cardinality({k \in 1..Len(fnGroups) : e \in Range(fnGroups[k])}) = 1

\* A tool run of two events followed by a further group.
C6_Witness ==
  /\ fnPc = "done"
  /\ Len(fnItems) = MaxItems
  /\ Len(fnGroups) >= 2
  /\ Len(fnGroups[1]) >= 2

(***************************************************************************)
(* C7. Grouping is idempotent: grouping the flattened groups again gives   *)
(* the same list of groups.                                                *)
(***************************************************************************)
C7_GroupingIdempotent ==
  fnPc = "done" => groupRunnerEvents(Flatten(fnGroups)) = fnGroups

\* A sequence that ends in a tool run, after a singleton group.
C7_Witness ==
  /\ fnPc = "done"
  /\ Len(fnGroups) >= 2
  /\ Len(fnGroups[Len(fnGroups)]) >= 2

(***************************************************************************)
(* C8. Filter then group: a progress_update between a tool_call and a      *)
(* tool_output of the same agent, with a newer non-progress event present, *)
(* is dropped and the two tool events share a group; the example           *)
(* [tool_call(A), progress_update(t=0), tool_output(A)] at t = 100 ms      *)
(* displays as [[tool_call, tool_output]].                                 *)
(***************************************************************************)
SandwichAt(s, i) ==
  /\ i + 2 <= Len(s)
  /\ s[i].type = "tool_call"
  /\ IsProgress(s[i + 1])
  /\ s[i + 2].type = "tool_output"
  /\ s[i + 2].agent = s[i].agent
  /\ \E e \in Range(s) : ~IsProgress(e) /\ e.timestamp > s[i + 1].timestamp

IsExample(s, t) ==
  /\ Len(s) = 3
  /\ SandwichAt(s, 1)
  /\ s[2].timestamp = 0
  /\ t = 100

C8_FilterThenGroup ==
  fnPc = "done" =>
    LET display == groupRunnerEvents(fnPruned)
    IN  /\ \A i \in 1..Len(fnItems) :
             SandwichAt(fnItems, i) =>
               /\ fnItems[i + 1] \notin Range(fnPruned)
               /\ \E g \in Range(display) :
                    \E k \in 1..Len(g) :
                      /\ k < Len(g)
                      /\ g[k] = fnItems[i]
                      /\ g[k + 1] = fnItems[i + 2]
        /\ IsExample(fnItems, fnNow) =>
             display = << <<fnItems[1], fnItems[3]>> >>

C8_Witness ==
  /\ fnPc = "done"
  /\ IsExample(fnItems, fnNow)
  /\ groupRunnerEvents(fnPruned) = << <<fnItems[1], fnItems[3]>> >>

(***************************************************************************)
(* C1. Merge is idempotent by event id: once a delta batch has been        *)
(* applied to the client's events, applying the same batch again changes   *)
(* nothing, no event id occurs twice, and the events known before keep     *)
(* their relative order.                                                   *)
(***************************************************************************)
KnownPart(s, known) == SelectSeq(s, LAMBDA e : e.id \in Ids(known))

SupersededProgress(s) ==
  {i \in 1..Len(s) : IsProgress(s[i]) /\ s[i].timestamp < MaxNonProgress(s)}

C5_AtMostOneSuperseded ==
  Cardinality(SupersededProgress(events)) <= 1

(***************************************************************************)
(* C9. Monotonic length per client: once the client is bootstrapped, its   *)
(* event list never gets shorter, in whatever order the responses of its   *)
(* Hydrate requests and the deltas arrive.                                 *)
(***************************************************************************)
C9_MonotonicLength ==
  [][(phase = "ready" /\ phase' = "ready") => Len(events') >= Len(events)]_vars

(***************************************************************************)
(* C10. After a failed fetchThreadState the client falls back to           *)
(* Bootstrap: a Bootstrap request is under way once the failure has been   *)
(* handled.                                                                *)
(***************************************************************************)
C10_FallbackToBootstrap ==
  [][\A r \in inflight :
       (r.kind = "state" /\ ~r.ok /\ HydrateReturn(r)) =>
         \E b \in inflight' : b.kind = "bootstrap"]_vars

(***************************************************************************)
(* C11. Events delivered on the delta channel become part of the client's  *)
(* events as they arrive: once a runner_event_delta carrying a batch has   *)
(* been handled, every event of the batch is among the client's events.    *)
(***************************************************************************)
C11_DeltaApplied ==
  [][(lastEffect' # lastEffect /\ lastEffect'.effect = "runner_event_delta") =>
       Ids(lastEffect'.events) \subseteq Ids(events')]_vars

(***************************************************************************)
(* C12. Handoff atomicity as the client sees it: once a snapshot has been  *)
(* applied, currentAgent is the agent the handoff events of the client's   *)
(* events lead to (the target of the last handoff, the default agent when  *)
(* there is none), so neither is ever held without the other.              *)
(***************************************************************************)
Handoffs(s) == {i \in 1..Len(s) : s[i].type = "handoff"}

\* The agent in charge after the events of s: the last handoff's target.
AgentAfter(s) ==
  IF Handoffs(s) = {} THEN DefaultAgent
  ELSE LET last == CHOOSE i \in Handoffs(s) : \A k \in Handoffs(s) : k <= i
       IN  OtherAgent(s[last].agent)

C12_HandoffAtomic ==
  agents # <<>> => currentAgent = AgentAfter(events)

\* The client holds a handoff and shows its target, with a newer handoff
\* already appended on the server.
C12_Witness ==
  /\ agents # <<>>
  /\ Handoffs(events) # {}
  /\ currentAgent = AgentAfter(events)
  /\ threadId \in DOMAIN threads
  /\ threads[threadId].current_agent # currentAgent

(***************************************************************************)
(* C13. Group shape: every group is a single event that is no tool_call,   *)
(* or a tool_call followed by tool_output events of the tool_call's agent; *)
(* a run is maximal (the group after it does not start with a tool_output  *)
(* of that agent); and a tool_output that is first, follows a non-tool     *)
(* event or follows an event of another agent is a group of its own.       *)
(***************************************************************************)
IsToolRun(g) ==
  /\ g[1].type = "tool_call"
  /\ \A k \in 2..Len(g) : g[k].type = "tool_output" /\ g[k].agent = g[1].agent

IsSingleton(g) == Len(g) = 1 /\ g[1].type # "tool_call"

C13_GroupShape ==
  fnPc = "done" =>
    /\ \A g \in Range(fnGroups) : Len(g) >= 1 /\ (IsSingleton(g) \/ IsToolRun(g))
    /\ \A k \in 1..(Len(fnGroups) - 1) :
         fnGroups[k][1].type = "tool_call" =>
           ~(/\ fnGroups[k + 1][1].type = "tool_output"
             /\ fnGroups[k + 1][1].agent = fnGroups[k][1].agent)
    /\ \A i \in 1..Len(fnItems) :
         (/\ fnItems[i].type = "tool_output"
          /\ \/ i = 1
             \/ fnItems[i - 1].type \notin {"tool_call", "tool_output"}
             \/ fnItems[i - 1].agent # fnItems[i].agent)
         => <<fnItems[i]>> \in Range(fnGroups)

\* A run of a tool_call and its output, then a tool_output of the other agent
\* in a group of its own.
C13_Witness ==
  /\ fnPc = "done"
  /\ Len(fnGroups) = 2
  /\ Len(fnGroups[1]) = 2
  /\ fnGroups[2][1].type = "tool_output"
  /\ fnGroups[2][1].agent # fnGroups[1][1].agent

(***************************************************************************)
(* C15. Thread binding by effect: when the delta channel delivers a        *)
(* runner_bind_thread carrying a thread id, the client's threadId becomes  *)
(* that id and a Hydrate for it is issued.                                 *)
(***************************************************************************)
\* The step handles a runner_bind_thread effect that carries a thread id.
BindStep ==
  /\ lastEffect' # lastEffect
  /\ lastEffect'.effect = "runner_bind_thread"
  /\ lastEffect'.thread_id # Null

\* A response of fetchThreadState for thread id is under way.
HydrateUnderWay(infl, id) ==
  \E h \in infl : h.kind = "state" /\ h.thread_id = id

HydrateSkippedStep ==
  /\ threadId = Null
  /\ lastHydrate # "skipped"
  /\ lastHydrate' = "skipped"

\* The step is the return of a fetchThreadState that gave null.
HydrateFailedStep ==
  /\ phase' = phase
  /\ \E r \in inflight :
       /\ r.kind = "state" /\ ~r.ok
       /\ inflight' = inflight \ {r}

hydratedState ==
  <<currentAgent, context, agents, events, guardrails, threadId>>

C14_FailedHydrateKeepsState ==
  [][(HydrateSkippedStep \/ HydrateFailedStep) =>
       hydratedState' = hydratedState]_vars

\* A Hydrate has failed on a client that holds a thread's events, guardrail
\* checks and context.
C14_Witness ==
  /\ lastHydrate = "failed"
  /\ agents # <<>>
  /\ events # <<>>
  /\ guardrails # <<>>
  /\ context # EmptyContext
  /\ currentAgent # DefaultAgent

\* A Hydrate has been skipped while the client holds no thread id.
C14_SkippedReached ==
  /\ lastHydrate = "skipped"
  /\ threadId = Null

====
